---- MODULE Spec2Model ----
(***************************************************************************)
(* State-machine model of mcp-screencatch: the enhanced capture workflow   *)
(* (src/src/enhanced-capture.ts), the single-region capture                *)
(* (src/src/capture.ts, src/src/overlay.ts) and the files they leave on    *)
(* disk.  External processes (selection overlay, merger, preview) and the  *)
(* filesystem are the environment: their outcomes are chosen with \E.      *)
(***************************************************************************)
EXTENDS Integers, Sequences, FiniteSets, TLC

(***************************************************************************)
(* Bounds of the model.                                                    *)
(***************************************************************************)
MaxCaptures == 2        \* longest captures list in a result file
MaxRecaptures == 1      \* 'recapture' answers allowed in one session
MaxMillis == 1          \* milliseconds of a second the wall clock shows
MaxCalls == 2           \* IPC calls, and captures saved, by concurrent sessions
MaxFiles == 3           \* capture files in a listed directory
MaxMtime == 3           \* modification times of the files of a listed directory
MaxDim == 3             \* width and height of an image handed to the merger
MaxImages == 5          \* images handed to the merger
MaxToolCalls == 3       \* tool calls handled by the server

(***************************************************************************)
(* Values.                                                                 *)
(***************************************************************************)
\* JavaScript null / undefined (a missing JSON field)
Null == "null"

\* JavaScript truthiness of an optional string
Truthy(s) == s # Null /\ s # ""

\* a Region {x, y, width, height}, identified by a number
Regions == 1..MaxCaptures

\* ordered lists of distinct regions, up to MaxCaptures long: the regions
\* 1..n selected left to right or right to left
CaptureLists ==
  UNION { { [i \in 1..n |-> i], [i \in 1..n |-> n + 1 - i] } : n \in 0..MaxCaptures }

\* the count field of a result file: the workflow only tells 0, 1 and more
CountValues == {0, 1, 2}

\* the wall-clock seconds of a session: one iteration ends in the second of
\* the previous one or in a later one
LastSecond == MaxRecaptures

\* the descriptions the description dialog can hand back: a session keeps
\* the first one and is not prompted again, so one text stands for all
Descriptions == {"A"}

\* what the selection process can put in the description field: the dialog
\* is shown only with --with-description and may be skipped
ExchangeDescriptions(prompted) ==
  IF prompted THEN Descriptions \cup {Null} ELSE {Null}

\* JSON documents that parse but are not a CaptureResult: a selection of one
\* region without the cancelled field
PartialCaptureResults ==
  { [kind |-> "partial", captures |-> c, count |-> Len(c), description |-> Null] :
      c \in { l \in CaptureLists : Len(l) = 1 } }

\* result file of enhanced-capture.py at process exit: missing, present but
\* unreadable, not JSON, a CaptureResult document, or another JSON document
CaptureResultFiles(prompted) ==
  { [kind |-> "absent"], [kind |-> "unreadable"], [kind |-> "malformed"] } \cup
  [ kind : {"json"}, captures : CaptureLists, count : CountValues,
    cancelled : BOOLEAN, description : ExchangeDescriptions(prompted) ] \cup
  PartialCaptureResults

\* result file of overlay.py at process exit; region 0 stands for null
RegionResultFiles ==
  { [kind |-> "absent"], [kind |-> "unreadable"], [kind |-> "malformed"] } \cup
  [ kind : {"json"}, region : Regions \cup {0}, cancelled : BOOLEAN ]

\* exit codes of a child process; SignalExit stands for the null code of an
\* exit by signal
ExitCodes == {0, 1, 2, -1}
SignalExit == -1

\* configured output directories, as path tokens
OutputDirs == { <<"/", "out">>, <<"rel", ".png", "d">> }

(***************************************************************************)
(* Pure functions of the source.                                           *)
(***************************************************************************)
\* first argument of enhancedCaptureScreen in the workflow loop
WithDescriptionArg(wd, saved) == wd /\ ~Truthy(saved)

\* the truthiness of result.cancelled: a missing field reads as undefined
CancelledFlag(doc) == "cancelled" \in DOMAIN doc /\ doc.cancelled

\* what the 'exit' handler resolves with for a parsed document
ResolveCaptureResult(doc) == IF CancelledFlag(doc) THEN [kind |-> "null"] ELSE doc

\* an 'exit' handler that hands back the region whatever the cancelled flag
ResolveRegionIgnoringCancel(doc) == doc.region

\* what selectRegionInteractive's 'exit' handler resolves with
ResolveRegion(doc) == IF doc.cancelled THEN 0 ELSE doc.region

\* the early returns of the workflow loop
IsCancelled(value) == value.kind = "null" \/ CancelledFlag(value)
IsNoRegions(value) == value.count = 0

\* savedDescription after an exchange
NextSavedDescription(saved, value) ==
  IF Truthy(value.description) /\ ~Truthy(saved) THEN value.description ELSE saved

\* the crop of one region out of the full screenshot
Crop(r) == [crop |-> r]


\* a capture service that falls back to the whole screen for an empty list
CaptureRegionsImagesWholeScreen(captures) ==
  IF captures = <<>> THEN <<Crop(0)>> ELSE [i \in DOMAIN captures |-> Crop(captures[i])]

\* captureRegions: one crop per region, in order
CaptureRegionsImages(captures) == [i \in DOMAIN captures |-> Crop(captures[i])]

\* capture_<date>_<time>.png for the wall-clock second t
Filename(t) == <<"capture_", ToString(t), ".png">>

\* path.join(outputDir, filename)
Join(dir, filename) == dir \o <<"/">> \o filename

RECURSIVE ReplaceFirst(_, _, _)
\* String.prototype.replace(from, to): the first occurrence only
ReplaceFirst(path, from, to) ==
  IF path = <<>> THEN <<>>
  ELSE IF Head(path) = from THEN <<to>> \o Tail(path)
  ELSE <<Head(path)>> \o ReplaceFirst(Tail(path), from, to)

\* filepath.replace(".png", ".json")
MetadataPath(filepath) == ReplaceFirst(filepath, ".png", ".json")

\* a step 4 that hands every list of images to the merger
IsSingleImageNever(images) == FALSE

\* whether the single-image branch of step 4 is taken
IsSingleImage(images) == Len(images) = 1

\* the merged field of the sidecar
Merged(count) == count > 1

\* the sidecar document
Metadata(saved, t, value, filepath, iteration) ==
  [ kind |-> "sidecar",
    description |-> IF Truthy(saved) THEN saved ELSE "",
    timestamp |-> t,
    captures |-> value.count,
    merged |-> Merged(value.count),
    filepath |-> filepath,
    regions |-> value.captures,
    recapture_iteration |-> iteration ]


\* a preview answer that takes every non-zero exit code for 'recapture'
ShouldRecaptureNonZero(code) == code # 0

\* the answer of the preview for an exit code
ShouldRecapture(code) == code = 1

\* the messages of the result object, as word lists
CancelledMessage == <<"Capture", "cancelled", "by", "user">>
NoRegionsMessage == <<"No", "regions", "captured">>

\* a catch block that drops the cause
FailedMessageNoCause(cause) == <<"Failed">>

FailedMessage(cause) == <<"Failed:">> \o cause
SuccessMessage(count, saved, n) ==
  <<"Successfully", "captured", ToString(count), "region(s)">>
  \o (IF Truthy(saved) THEN <<":", saved>> ELSE <<>>)
  \o (IF n > 0
      THEN <<"(recaptured", ToString(n), IF n > 1 THEN "times)" ELSE "time)">>
      ELSE <<>>)
LegacyCancelledMessage == <<"Screen", "capture", "cancelled", "by", "user">>
LegacyFailedMessage(cause) == <<"Failed", "to", "capture", "screen:">> \o cause
LegacySuccessMessage(filepath) ==
  <<"Screen", "captured", "successfully.", "File", "saved", "to:">> \o filepath

\* error.message of the failures the environment can produce
SpawnError == <<"spawn", "python", "ENOENT">>
ReadError == <<"EACCES:", "permission", "denied">>
ParseError == <<"Unexpected", "token", "in", "JSON">>
ScreenshotError == <<"screenshot", "failed">>
ExtractError == <<"extract_area:", "bad", "extract", "area">>
WriteError == <<"ENOENT:", "no", "such", "file", "or", "directory">>
MkdirError == <<"EACCES:", "mkdir">>
MergeExitError(code) ==
  <<"Image", "merge", "failed", "with", "code", IF code = SignalExit THEN Null ELSE ToString(code)>>

(***************************************************************************)
(* Filesystem helpers: a directory tree is a function from paths to file   *)
(* contents.                                                               *)
(***************************************************************************)
WriteFile(fs, path, content) == (path :> content) @@ fs

\* an unlink that leaves the file where it is
UnlinkNothing(fs, path) == fs

\* unlink(path)
Unlink(fs, path) == [p \in (DOMAIN fs) \ {path} |-> fs[p]]
EmptyFs == [p \in {} |-> Null]


\* path.resolve(p): a relative path is resolved against the working directory
Cwd == <<"/", "cwd">>
Resolve(path) == IF Head(path) = "/" THEN path ELSE Cwd \o <<"/">> \o path

(***************************************************************************)
(* State.                                                                  *)
(***************************************************************************)
VARIABLES
  tool,             \* the tool call being served: enhanced_capture or capture_screen
  outputDir,        \* outputDir argument
  withDescription,  \* withDescription argument
  showPreview,      \* showPreview argument
  pc,               \* position of the session in its code
  ipc,              \* the settled promise of the last selection exchange
  recaptureCount,   \* let recaptureCount
  savedDescription, \* let savedDescription
  result,           \* const result of the current iteration
  imageBuffers,     \* const imageBuffers of the current iteration
  timestamp,        \* the second the current filename was generated in
  clock,            \* wall clock, in seconds
  dirExists,        \* whether the output directory exists
  disk,             \* image and sidecar files, by resolved path
  tempFile,         \* outputFile of the exchange in flight: absent or present
  mergeTemps,       \* tempFiles of the mergeImages call of this iteration on disk
  ret,              \* the returned result object
  obs,              \* observations of the run: spawns, calls, answers
  names,            \* temp paths and capture files named by concurrent calls
  listing,          \* a listCaptures call and the directory it lists
  merge,            \* a run of the merger's automatic layout selection
  call,             \* one IPC call and the events of its child process
  server,           \* the tool-call handler of index.ts and a session it started
  overlap           \* two mergeImages calls that run at the same time

\* the state of one capture session
session == << tool, outputDir, withDescription, showPreview, pc, ipc, recaptureCount,
              savedDescription, result, imageBuffers, timestamp, clock, dirExists,
              disk, tempFile, mergeTemps, ret, obs >>

\* the state of the services modelled on their own
services == << names, listing, merge, call, server, overlap >>

vars == << session, services >>

\* the value of a service variable in a specification that does not run it
Unused == [pc |-> "unused"]

args == << tool, outputDir, withDescription, showPreview >>
locals == << recaptureCount, savedDescription, result, imageBuffers, timestamp >>

Pending == [state |-> "pending"]
NoResult == [kind |-> "none"]

NoFault == [step |-> "none"]
Fault(step, cause) == [step |-> step, cause |-> cause]

\* the failure of reading or parsing a result file
FileFault(file) ==
  IF file.kind = "unreadable" THEN Fault("read", ReadError)
  ELSE IF file.kind = "malformed" THEN Fault("parse", ParseError)
  ELSE NoFault

\* the external processes of the session that are running
Started(running, process) == running \cup {process}

\* an 'exit' handler that does not wait for the process to end
EndedNever(running, process) == running

\* the process has exited, or could not be launched
Ended(running, process) == running \ {process}

InitObs ==
  [ running |-> {},           \* external processes spawned and not yet exited
    spawns |-> <<>>,          \* --with-description flag of every selection spawn
    lastFile |-> NoResult,    \* result file found at the last selection exit
    lastExit |-> [event |-> "none"],  \* selection exit being handled
    first |-> NoResult,       \* description of the first non-cancelled exchange
    recaptureAnswers |-> 0,   \* preview exits with code 1
    lastPreview |-> [event |-> "none"],  \* outcome of the last preview exchange
    previewSpawns |-> 0,      \* preview processes spawned since the last selection spawn
    captureCalls |-> 0,       \* calls of the capture service since then
    mergeCalls |-> 0,         \* calls of mergeImages since then
    writes |-> 0,             \* image and sidecar writes since then
    unlinkFailed |-> FALSE,   \* a recapture cleanup deletion failed
    fault |-> [step |-> "none"] ]  \* the failure the environment produced

Init ==
  /\ tool \in {"enhanced_capture", "capture_screen"}
  /\ outputDir \in OutputDirs
  /\ withDescription \in BOOLEAN
  /\ showPreview \in BOOLEAN
  /\ tool = "capture_screen" => withDescription /\ ~showPreview
  /\ pc = IF tool = "enhanced_capture" THEN "loop" ELSE "l_ensure"
  /\ ipc = Pending
  /\ recaptureCount = 0
  /\ savedDescription = Null
  /\ result = NoResult
  /\ imageBuffers = <<>>
  /\ timestamp = 0
  /\ clock = 0
  /\ dirExists \in BOOLEAN
  /\ disk = EmptyFs
  /\ tempFile = "absent"
  /\ mergeTemps = 0
  /\ ret = Pending
  /\ obs = InitObs
  /\ names = Unused
  /\ listing = Unused
  /\ merge = Unused
  /\ call = Unused
  /\ server = Unused
  /\ overlap = Unused

(***************************************************************************)
(* The catch block and the returns of enhancedCaptureWorkflow.             *)
(***************************************************************************)
\* catch (error): return {success: false, message: `Failed: ${errorMessage}`}
Fail(o, cause) ==
  /\ ret' = [success |-> FALSE, message |-> FailedMessage(cause)]
  /\ pc' = "done"
  /\ obs' = [o EXCEPT !.lastExit = [event |-> "none"]]

ReturnCancelled == [success |-> FALSE, message |-> CancelledMessage]
ReturnNoRegions == [success |-> FALSE, message |-> NoRegionsMessage]
ReturnSuccess(filepath, saved, count, n) ==
  [ success |-> TRUE, filepath |-> filepath, description |-> saved,
    captureCount |-> count, recaptured |-> n,
    message |-> SuccessMessage(count, saved, n) ]

(***************************************************************************)
(* The selection exchange: enhancedCaptureScreen.                          *)
(***************************************************************************)

\* an 'exit' handler without the existsSync check: a missing file is an error
CaptureExitOutcomeNoExistsCheck(file) ==
  IF file.kind \in {"absent", "unreadable"} THEN [state |-> "rejected", error |-> ReadError]
  ELSE IF file.kind = "malformed" THEN [state |-> "rejected", error |-> ParseError]
  ELSE [state |-> "resolved", value |-> ResolveCaptureResult(file)]

\* the promise settled by the 'exit' handler
CaptureExitOutcome(file) ==
  IF file.kind = "absent" THEN [state |-> "resolved", value |-> [kind |-> "null"]]
  ELSE IF file.kind = "unreadable" THEN [state |-> "rejected", error |-> ReadError]
  ELSE IF file.kind = "malformed" THEN [state |-> "rejected", error |-> ParseError]
  ELSE [state |-> "resolved", value |-> ResolveCaptureResult(file)]

\* the temp result file after the 'exit' handler
TempFileAfterExit(file, unlinkOk) ==
  IF file.kind = "absent" THEN "absent"
  ELSE IF file.kind \in {"unreadable", "malformed"} THEN "present"
  ELSE IF unlinkOk THEN "absent" ELSE "present"

\* a loop that gives up after the first recapture
SpawnSelectionCapped ==
  /\ pc = "loop"
  /\ recaptureCount < 1
  /\ pc' = "selecting"
  /\ ipc' = Pending
  /\ tempFile' = "absent"
  /\ obs' = [obs EXCEPT !.spawns =
               Append(@, WithDescriptionArg(withDescription, savedDescription)),
                         !.lastFile = NoResult, !.previewSpawns = 0,
                         !.captureCalls = 0, !.mergeCalls = 0, !.writes = 0]
  /\ UNCHANGED << services, args, locals, clock, dirExists, disk, mergeTemps, ret >>

\* spawn("python", [scriptPath, outputFile, "--with-description"?])
SpawnSelection ==
  /\ pc = "loop"
  /\ pc' = "selecting"
  /\ ipc' = Pending
  /\ tempFile' = "absent"
  /\ obs' = [obs EXCEPT !.running = Started(@, "selection"), !.spawns =
               Append(@, WithDescriptionArg(withDescription, savedDescription)),
                         !.lastFile = NoResult, !.previewSpawns = 0,
                         !.captureCalls = 0, !.mergeCalls = 0, !.writes = 0]
  /\ UNCHANGED << services, args, locals, clock, dirExists, disk, mergeTemps, ret >>

\* an 'error' handler that only logs: the promise is left pending
SelectionErrorIgnored ==
  /\ pc = "selecting"
  /\ obs.fault = NoFault
  /\ obs' = [obs EXCEPT !.fault = Fault("spawn", SpawnError)]
  /\ UNCHANGED << services, args, locals, pc, ipc, clock, dirExists, disk, tempFile, mergeTemps, ret >>

\* child.on("error"): the process could not be launched
SelectionError ==
  /\ pc = "selecting"
  /\ ipc' = [state |-> "rejected", error |-> SpawnError]
  /\ pc' = "selected"
  /\ obs' = [obs EXCEPT !.running = Ended(@, "selection"),
                        !.fault = Fault("spawn", SpawnError)]
  /\ UNCHANGED << services, args, locals, clock, dirExists, disk, tempFile, mergeTemps, ret >>

\* a call that gives up on a selection process that has not exited
SelectionTimeout ==
  /\ pc = "selecting"
  /\ ipc' = [state |-> "rejected", error |-> <<"timeout">>]
  /\ pc' = "selected"
  /\ UNCHANGED << services, args, locals, clock, dirExists, disk, tempFile, mergeTemps, ret, obs >>

\* child.on("exit"): read, parse and delete the result file
SelectionExit ==
  /\ pc = "selecting"
  /\ \E code \in ExitCodes, unlinkOk \in BOOLEAN :
     \E file \in CaptureResultFiles(obs.spawns[Len(obs.spawns)]) :
        /\ ipc' = CaptureExitOutcome(file)
        /\ tempFile' = TempFileAfterExit(file, unlinkOk)
        /\ obs' = [obs EXCEPT !.running = Ended(@, "selection"),
                              !.lastFile = file,
                              !.lastExit = [event |-> "exit", code |-> code],
                              !.fault = FileFault(file)]
  /\ pc' = "selected"
  /\ UNCHANGED << services, args, locals, clock, dirExists, disk, mergeTemps, ret >>

\* the workflow after `await enhancedCaptureScreen(...)`: the early returns
\* and the description of the session
AfterSelection ==
  /\ pc = "selected"
  /\ IF ipc.state = "rejected"
       THEN /\ Fail(obs, ipc.error)
            /\ UNCHANGED << locals >>
     ELSE IF IsCancelled(ipc.value)
       THEN /\ ret' = ReturnCancelled
            /\ pc' = "done"
            /\ obs' = [obs EXCEPT !.lastExit = [event |-> "none"]]
            /\ UNCHANGED << locals >>
     ELSE IF IsNoRegions(ipc.value)
       THEN /\ ret' = ReturnNoRegions
            /\ pc' = "done"
            /\ obs' = [obs EXCEPT !.first = IF @ = NoResult
                                             THEN [description |-> ipc.value.description]
                                             ELSE @,
                                   !.lastExit = [event |-> "none"]]
            /\ UNCHANGED << locals >>
     ELSE /\ savedDescription' = NextSavedDescription(savedDescription, ipc.value)
          /\ result' = ipc.value
          /\ pc' = "capture"
          /\ obs' = [obs EXCEPT !.first = IF @ = NoResult
                                             THEN [description |-> ipc.value.description]
                                             ELSE @,
                                 !.lastExit = [event |-> "none"]]
          /\ UNCHANGED << recaptureCount, imageBuffers, timestamp, ret >>
  /\ tempFile' = "absent"     \* outputFile is a local of enhancedCaptureScreen
  /\ UNCHANGED << services, args, ipc, clock, dirExists, disk, mergeTemps >>


(***************************************************************************)
(* Steps 2 to 5: capture, filename, image, sidecar.                        *)
(***************************************************************************)
\* a filepath joined to the directory of the compiled sources
FilePathInSourceDir == Join(<<"/", "dist">>, Filename(timestamp))

\* join(outputDir, filename) of the current iteration
FilePath == Join(outputDir, Filename(timestamp))

ImageFile(images) == [kind |-> "image", merged |-> FALSE, images |-> images]
MergedFile(images) == [kind |-> "image", merged |-> TRUE, images |-> images]

\* await captureRegions(result.captures): one screenshot, one crop per region
CaptureRegions ==
  /\ pc = "capture"
  /\ LET o == [obs EXCEPT !.captureCalls = @ + 1] IN
     \E outcome \in {"ok", "screenshot", "extract"} :
       CASE outcome = "ok" ->
              /\ imageBuffers' = CaptureRegionsImages(result.captures)
              /\ pc' = "name"
              /\ obs' = o
              /\ UNCHANGED << recaptureCount, savedDescription, result, timestamp, ret >>
         [] outcome = "screenshot" ->
              /\ Fail([o EXCEPT !.fault = Fault("capture", ScreenshotError)], ScreenshotError)
              /\ UNCHANGED locals
         [] outcome = "extract" ->
              /\ result.captures # <<>>
              /\ Fail([o EXCEPT !.fault = Fault("capture", ExtractError)], ExtractError)
              /\ UNCHANGED locals
  /\ UNCHANGED << services, args, ipc, clock, dirExists, disk, tempFile, mergeTemps >>

\* const timestamp = new Date(); the filename has the resolution of a second
GenerateFilename ==
  /\ pc = "name"
  /\ \E t \in {clock, clock + 1} :
       /\ t <= LastSecond
       /\ clock' = t
       /\ timestamp' = t
  /\ pc' = "save"
  /\ UNCHANGED << services, args, ipc, recaptureCount, savedDescription, result, imageBuffers,
                  dirExists, disk, tempFile, mergeTemps, ret, obs >>

\* imageBuffers.length === 1: await writeFile(filepath, imageBuffers[0])
SaveSingle ==
  /\ pc = "save"
  /\ IsSingleImage(imageBuffers)
  /\ \E ok \in BOOLEAN :
       IF ok
         THEN /\ dirExists
              /\ disk' = WriteFile(disk, Resolve(FilePath), ImageFile(<<imageBuffers[1]>>))
              /\ pc' = "metadata"
              /\ obs' = [obs EXCEPT !.writes = @ + 1]
              /\ UNCHANGED ret
         ELSE /\ Fail([obs EXCEPT !.fault = Fault("write", WriteError)], WriteError)
              /\ UNCHANGED disk
  /\ UNCHANGED << services, args, ipc, locals, clock, dirExists, tempFile, mergeTemps >>

\* mergeImages: write one temp file per buffer, then spawn the merger
MergeStart ==
  /\ pc = "save"
  /\ ~IsSingleImage(imageBuffers)
  /\ LET o == [obs EXCEPT !.mergeCalls = @ + 1] IN
     \E written \in 0..Len(imageBuffers) :
       IF written = Len(imageBuffers)
         THEN /\ mergeTemps' = written
              /\ pc' = "merging"
              /\ obs' = [o EXCEPT !.running = Started(@, "merger")]
              /\ UNCHANGED ret
         ELSE \* writeFile of a temp file threw, before the try/finally
              /\ mergeTemps' = written
              /\ Fail([o EXCEPT !.fault = Fault("temp-write", WriteError)], WriteError)
  /\ UNCHANGED << services, args, ipc, locals, clock, dirExists, disk, tempFile >>

\* finally: unlink every temp file, ignoring failures; the number of files
\* that failed unlinks leave behind
MergeCleanup(temps) == 0..temps

\* child.on("error", reject) of the merger
MergerError ==
  /\ pc = "merging"
  /\ mergeTemps' \in MergeCleanup(mergeTemps)
  /\ Fail([obs EXCEPT !.running = Ended(@, "merger"),
                       !.fault = Fault("spawn", SpawnError)], SpawnError)
  /\ UNCHANGED << services, args, ipc, locals, clock, dirExists, disk, tempFile >>

\* merge-images-cli.py: the list of images to merge must be non-empty
MergerAccepts(images) == Len(images) >= 1

\* tempFiles of mergeImages: temp-merge-<now>-<i>.png holds imageBuffers[i],
\* i counted from 0
TempMergeFiles(images) == [i \in DOMAIN images |-> [index |-> i - 1, content |-> images[i]]]

\* a merger command line that lists the temp files last to first
MergerInputsReversed(tempFiles) ==
  [i \in DOMAIN tempFiles |-> tempFiles[Len(tempFiles) + 1 - i].content]

\* ...tempFiles on the merger's command line: the images it reads, in order
MergerInputs(tempFiles) == [i \in DOMAIN tempFiles |-> tempFiles[i].content]

\* an 'exit' handler of the merger that resolves for every exit code
MergerExitAnyCode ==
  /\ pc = "merging"
  /\ mergeTemps' \in MergeCleanup(mergeTemps)
  /\ \E code \in ExitCodes :
       /\ dirExists
       /\ disk' = WriteFile(disk, Resolve(FilePath),
                            MergedFile(MergerInputs(TempMergeFiles(imageBuffers))))
       /\ pc' = "metadata"
       /\ obs' = [obs EXCEPT !.writes = @ + 1,
                             !.fault = IF code = 0 THEN @
                                       ELSE Fault("merge", MergeExitError(code))]
       /\ UNCHANGED ret
  /\ UNCHANGED << services, args, ipc, locals, clock, dirExists, tempFile >>

\* child.on("exit") of the merger: code 0 resolves, any other code rejects
MergerExit ==
  /\ pc = "merging"
  /\ mergeTemps' \in MergeCleanup(mergeTemps)
  /\ \E code \in ExitCodes :
       IF code = 0
         THEN /\ dirExists
              /\ MergerAccepts(imageBuffers)
              /\ disk' = WriteFile(disk, Resolve(FilePath),
                                MergedFile(MergerInputs(TempMergeFiles(imageBuffers))))
              /\ pc' = "metadata"
              /\ obs' = [obs EXCEPT !.running = Ended(@, "merger"), !.writes = @ + 1]
              /\ UNCHANGED ret
         ELSE /\ Fail([obs EXCEPT !.running = Ended(@, "merger"),
                                  !.fault = Fault("merge", MergeExitError(code))],
                       MergeExitError(code))
              /\ UNCHANGED disk
  /\ UNCHANGED << services, args, ipc, locals, clock, dirExists, tempFile >>

\* await writeFile(metadataPath, JSON.stringify(metadata))
WriteMetadata ==
  /\ pc = "metadata"
  /\ \E ok \in BOOLEAN :
       IF ok
         THEN /\ disk' = WriteFile(disk, Resolve(MetadataPath(FilePath)),
                           Metadata(savedDescription, timestamp, result, FilePath,
                                    recaptureCount))
              /\ pc' = "decide"
              /\ obs' = [obs EXCEPT !.writes = @ + 1]
              /\ UNCHANGED ret
         ELSE /\ Fail([obs EXCEPT !.fault = Fault("write", WriteError)], WriteError)
              /\ UNCHANGED disk
  /\ UNCHANGED << services, args, ipc, locals, clock, dirExists, tempFile, mergeTemps >>


(***************************************************************************)
(* Step 6: preview, keep or recapture.                                     *)
(***************************************************************************)
\* the result object of an accepted capture
KeepResult == ReturnSuccess(FilePath, savedDescription, result.count, recaptureCount)

\* a recapture that leaves the counter alone
NextRecaptureCountSame(n) == n

\* recaptureCount++
NextRecaptureCount(n) == n + 1


\* a cleanup that deletes the image and forgets the sidecar
RecaptureCleanupImageOnly(fs, filepath, imageOk, sidecarOk) ==
  IF ~imageOk THEN fs ELSE Unlink(fs, Resolve(filepath))

\* try { await unlink(filepath); await unlink(metadataPath) } catch {}
\* imageOk, sidecarOk: whether each unlink, if reached, succeeds
RecaptureCleanup(fs, filepath, imageOk, sidecarOk) ==
  IF ~imageOk THEN fs
  ELSE IF ~sidecarOk THEN Unlink(fs, Resolve(filepath))
  ELSE Unlink(Unlink(fs, Resolve(filepath)), Resolve(MetadataPath(filepath)))

\* showPreview is false: shouldRecapture stays false
ReturnWithoutPreview ==
  /\ pc = "decide"
  /\ ~showPreview
  /\ ret' = KeepResult
  /\ pc' = "done"
  /\ UNCHANGED << services, args, ipc, locals, clock, dirExists, disk, tempFile, mergeTemps, obs >>

\* a step 6 that shows the preview whatever showPreview says
SpawnPreviewAlways ==
  /\ pc = "decide"
  /\ pc' = "previewing"
  /\ obs' = [obs EXCEPT !.previewSpawns = @ + 1, !.lastPreview = [event |-> "none"]]
  /\ UNCHANGED << services, args, ipc, locals, clock, dirExists, disk, tempFile, mergeTemps, ret >>

\* showPreviewAndConfirm: spawn the preview process
SpawnPreview ==
  /\ pc = "decide"
  /\ showPreview
  /\ pc' = "previewing"
  /\ obs' = [obs EXCEPT !.running = Started(@, "preview"),
                        !.previewSpawns = @ + 1, !.lastPreview = [event |-> "none"]]
  /\ UNCHANGED << services, args, ipc, locals, clock, dirExists, disk, tempFile, mergeTemps, ret >>

\* child.on("error") of the preview: resolve(false), the capture is kept
PreviewError ==
  /\ pc = "previewing"
  /\ ret' = KeepResult
  /\ pc' = "done"
  /\ obs' = [obs EXCEPT !.running = Ended(@, "preview"),
                        !.lastPreview = [event |-> "error"],
                        !.fault = Fault("preview-spawn", SpawnError)]
  /\ UNCHANGED << services, args, ipc, locals, clock, dirExists, disk, tempFile, mergeTemps >>

\* child.on("exit") of the preview, and the workflow after the answer
PreviewExit ==
  /\ pc = "previewing"
  /\ \E code \in ExitCodes :
       LET o == [obs EXCEPT !.running = Ended(@, "preview"),
                            !.lastPreview = [event |-> "exit", code |-> code],
                            !.recaptureAnswers = IF code = 1 THEN @ + 1 ELSE @] IN
       IF ShouldRecapture(code)
         THEN /\ recaptureCount < MaxRecaptures
              /\ recaptureCount' = NextRecaptureCount(recaptureCount)
              /\ \E imageOk \in BOOLEAN, sidecarOk \in BOOLEAN :
                   /\ disk' = RecaptureCleanup(disk, FilePath, imageOk, sidecarOk)
                   /\ obs' = [o EXCEPT !.unlinkFailed = @ \/ ~imageOk \/ ~sidecarOk]
              /\ pc' = "loop"
              \* result, imageBuffers and timestamp are scoped to the loop body
              /\ result' = NoResult
              /\ imageBuffers' = <<>>
              /\ timestamp' = 0
              /\ mergeTemps' = 0
              /\ UNCHANGED << savedDescription, ret >>
         ELSE /\ ret' = KeepResult
              /\ pc' = "done"
              /\ obs' = o
              /\ UNCHANGED << locals, disk, mergeTemps >>
  /\ UNCHANGED << services, args, ipc, clock, dirExists, tempFile >>

(***************************************************************************)
(* captureScreenRegion: the single-region capture of capture.ts.           *)
(***************************************************************************)
\* catch (error): return {success: false, message: `Failed to capture screen: ...`}
LegacyFail(o, cause) ==
  /\ ret' = [success |-> FALSE, message |-> LegacyFailedMessage(cause)]
  /\ pc' = "done"
  /\ obs' = [o EXCEPT !.lastExit = [event |-> "none"]]


\* an 'exit' handler that treats a missing file as an error on a non-zero exit
RegionExitOutcomeNoExistsCheck(file) ==
  IF file.kind \in {"absent", "unreadable"} THEN [state |-> "rejected", error |-> ReadError]
  ELSE IF file.kind = "malformed" THEN [state |-> "rejected", error |-> ParseError]
  ELSE [state |-> "resolved", value |-> ResolveRegion(file)]

\* the promise settled by the 'exit' handler of selectRegionInteractive
RegionExitOutcome(file) ==
  IF file.kind = "absent" THEN [state |-> "resolved", value |-> 0]
  ELSE IF file.kind = "unreadable" THEN [state |-> "rejected", error |-> ReadError]
  ELSE IF file.kind = "malformed" THEN [state |-> "rejected", error |-> ParseError]
  ELSE [state |-> "resolved", value |-> ResolveRegion(file)]

\* await ensureOutputDirectory(outputDir), then spawn the overlay
LegacyStart ==
  /\ pc = "l_ensure"
  /\ \E mkdirOk \in BOOLEAN :
       IF dirExists \/ mkdirOk
         THEN /\ dirExists' = TRUE
              /\ pc' = "l_selecting"
              /\ tempFile' = "absent"
              /\ obs' = [obs EXCEPT !.running = Started(@, "selection"),
                                    !.spawns = Append(@, FALSE)]
              /\ UNCHANGED ret
         ELSE /\ LegacyFail([obs EXCEPT !.fault = Fault("write", MkdirError)], MkdirError)
              /\ UNCHANGED << dirExists, tempFile >>
  /\ UNCHANGED << services, args, ipc, locals, clock, disk, mergeTemps >>

\* child.on("error") of the overlay
LegacySelectionError ==
  /\ pc = "l_selecting"
  /\ ipc' = [state |-> "rejected", error |-> SpawnError]
  /\ pc' = "l_selected"
  /\ obs' = [obs EXCEPT !.running = Ended(@, "selection"),
                        !.fault = Fault("spawn", SpawnError)]
  /\ UNCHANGED << services, args, locals, clock, dirExists, disk, tempFile, mergeTemps, ret >>

\* child.on("exit") of the overlay
LegacySelectionExit ==
  /\ pc = "l_selecting"
  /\ \E code \in ExitCodes, unlinkOk \in BOOLEAN :
     \E file \in RegionResultFiles :
        /\ ipc' = RegionExitOutcome(file)
        /\ tempFile' = TempFileAfterExit(file, unlinkOk)
        /\ obs' = [obs EXCEPT !.running = Ended(@, "selection"),
                              !.lastFile = file,
                              !.lastExit = [event |-> "exit", code |-> code],
                              !.fault = FileFault(file)]
  /\ pc' = "l_selected"
  /\ UNCHANGED << services, args, locals, clock, dirExists, disk, mergeTemps, ret >>

\* captureScreenRegion after `await selectRegionInteractive()`
LegacyAfterSelection ==
  /\ pc = "l_selected"
  /\ IF ipc.state = "rejected"
       THEN /\ LegacyFail(obs, ipc.error)
            /\ UNCHANGED << locals, clock >>
     ELSE IF ipc.value = 0
       THEN /\ ret' = [success |-> FALSE, message |-> LegacyCancelledMessage]
            /\ pc' = "done"
            /\ obs' = [obs EXCEPT !.lastExit = [event |-> "none"]]
            /\ UNCHANGED << locals, clock >>
     ELSE /\ \E t \in {clock, clock + 1} :
               /\ t <= LastSecond
               /\ clock' = t
               /\ timestamp' = t
          /\ result' = [kind |-> "region", region |-> ipc.value]
          /\ pc' = "l_capture"
          /\ obs' = [obs EXCEPT !.lastExit = [event |-> "none"]]
          /\ UNCHANGED << recaptureCount, savedDescription, imageBuffers, ret >>
  /\ tempFile' = "absent"     \* outputFile is a local of selectRegionInteractive
  /\ UNCHANGED << services, args, ipc, dirExists, disk, mergeTemps >>

\* await captureRegion(region, filepath), then the success result
LegacyCapture ==
  /\ pc = "l_capture"
  /\ LET o == [obs EXCEPT !.captureCalls = @ + 1]
         filepath == Resolve(FilePath) IN
     \E outcome \in {"ok", "screenshot", "extract"} :
       IF outcome = "ok"
         THEN /\ dirExists
              /\ disk' = WriteFile(disk, filepath, ImageFile(<<Crop(result.region)>>))
              /\ ret' = [success |-> TRUE, filepath |-> filepath, timestamp |-> clock,
                         message |-> LegacySuccessMessage(filepath),
                         continue_prompt |-> TRUE]
              /\ pc' = "done"
              /\ obs' = [o EXCEPT !.writes = @ + 1]
         ELSE /\ LET cause == IF outcome = "screenshot" THEN ScreenshotError
                                                          ELSE ExtractError IN
                 LegacyFail([o EXCEPT !.fault = Fault("capture", cause)], cause)
              /\ UNCHANGED disk
  /\ UNCHANGED << services, args, ipc, locals, clock, dirExists, tempFile, mergeTemps >>

(***************************************************************************)
(* The specification.                                                      *)
(***************************************************************************)
Next ==
  \/ SpawnSelection
  \/ SelectionError
  \/ SelectionExit
  \/ AfterSelection
  \/ CaptureRegions
  \/ GenerateFilename
  \/ SaveSingle
  \/ MergeStart
  \/ MergerError
  \/ MergerExit
  \/ WriteMetadata
  \/ ReturnWithoutPreview
  \/ SpawnPreview
  \/ PreviewError
  \/ PreviewExit
  \/ LegacyStart
  \/ LegacySelectionError
  \/ LegacySelectionExit
  \/ LegacyAfterSelection
  \/ LegacyCapture

Spec == Init /\ [][Next]_vars

\* the session when every spawned process eventually exits or fails to
\* launch and every filesystem operation eventually completes: the step the
\* session waits for is eventually taken
LiveSpec == Init /\ [][Next]_vars /\ WF_vars(Next)

(***************************************************************************)
(* Naming: the temp result files of concurrent IPC calls and the capture   *)
(* files of concurrent sessions.  Sessions of one server, or of two        *)
(* servers started from the same installation, share the directory of the  *)
(* compiled sources and may share the output directory.                    *)
(***************************************************************************)
\* the session variables in a specification that runs no capture session
NoSession ==
  /\ tool = "none"
  /\ outputDir = <<>>
  /\ withDescription = FALSE
  /\ showPreview = FALSE
  /\ pc = "none"
  /\ ipc = Pending
  /\ recaptureCount = 0
  /\ savedDescription = Null
  /\ result = NoResult
  /\ imageBuffers = <<>>
  /\ timestamp = 0
  /\ clock = 0
  /\ dirExists = FALSE
  /\ disk = EmptyFs
  /\ tempFile = "absent"
  /\ mergeTemps = 0
  /\ ret = Pending
  /\ obs = InitObs

\* the sessions that run at the same time
Sessions == {1, 2}

\* __dirname of the compiled sources
SourceDir == <<"/", "dist">>

\* the file name prefixes of the two getTempOutputFile functions
CaptureResultPrefix == "capture-result-"
RegionOutputPrefix == "region-output-"

\* Math.floor(Math.random() * 10000), with the range scaled down
RandomSuffixes == 0..1

\* Date.now() of a wall clock [s, ms]
DateNow(now) == now.s * 1000 + now.ms

\* getTempOutputFile(): join(__dirname, `<prefix><timestamp>-<random>.json`)
GetTempOutputFile(prefix, now, random) ==
  Join(SourceDir, <<prefix, ToString(DateNow(now)), "-", ToString(random), ".json">>)

NamesInit ==
  /\ NoSession
  /\ listing = Unused
  /\ merge = Unused
  /\ call = Unused
  /\ server = Unused
  /\ overlap = Unused
  /\ names = [ now |-> [s |-> 0, ms |-> 0],        \* wall clock
               last |-> [i \in Sessions |-> -1],    \* Date.now() of each session's last call
               temps |-> <<>>,                      \* outputFile of every IPC call, in order
               saves |-> <<>>,                      \* every capture saved, in order
               dir |-> EmptyFs ]                    \* capture files on disk

\* the wall clock advances by a millisecond or to the next second
Tick ==
  /\ \/ /\ names.now.ms < MaxMillis
        /\ names' = [names EXCEPT !.now.ms = @ + 1]
     \/ /\ names.now.s < LastSecond
        /\ names' = [names EXCEPT !.now = [s |-> @.s + 1, ms |-> 0]]
  /\ UNCHANGED << session, listing, merge, call, server, overlap >>

\* a session starts an IPC call: const outputFile = getTempOutputFile()
StartIpcCall ==
  /\ Len(names.temps) < MaxCalls
  /\ \E i \in Sessions, prefix \in {CaptureResultPrefix, RegionOutputPrefix},
        random \in RandomSuffixes :
       /\ names.last[i] # DateNow(names.now)    \* a session's calls are sequential
       /\ names' = [names EXCEPT
             !.temps = Append(@, [session |-> i,
                                   path |-> GetTempOutputFile(prefix, names.now, random)]),
             !.last[i] = DateNow(names.now)]
  /\ UNCHANGED << session, listing, merge, call, server, overlap >>

\* a session saves a capture: the filename of the current second, then the
\* write of the image file
SaveCapture ==
  /\ Len(names.saves) < MaxCalls
  /\ \E i \in Sessions, dir \in OutputDirs :
       LET filename == Filename(names.now.s)
           filepath == Resolve(Join(dir, filename))
           capture == [session |-> i, number |-> Len(names.saves) + 1]
       IN  /\ names.last[i] # DateNow(names.now)
           /\ names' = [names EXCEPT
                 !.saves = Append(@, [capture |-> capture, dir |-> dir,
                                      filename |-> filename, filepath |-> filepath]),
                 !.dir = WriteFile(@, filepath, capture),
                 !.last[i] = DateNow(names.now)]
  /\ UNCHANGED << session, listing, merge, call, server, overlap >>

NamesNext == Tick \/ StartIpcCall \/ SaveCapture

NamesSpec == NamesInit /\ [][NamesNext]_vars

(***************************************************************************)
(* listCaptures of capture.ts.                                             *)
(***************************************************************************)
Min(a, b) == IF a <= b THEN a ELSE b
Max(a, b) == IF a >= b THEN a ELSE b

\* the file names a listed directory can hold, in a fixed order: capture
\* images, a sidecar and an image of another tool
DirNames ==
  [i \in 1..MaxFiles |-> <<"capture_", ToString(i), ".png">>]
  \o << <<"capture_", "1", ".json">>, <<"shot_", "1", ".png">> >>

\* f.startsWith("capture_") && f.endsWith(".png")
IsCaptureFile(f) == f[1] = "capture_" /\ f[Len(f)] = ".png"

\* the contents a directory can have: its file names with their mtimes
DirContents ==
  { d \in UNION { [S -> 1..MaxMtime] : S \in SUBSET { DirNames[i] : i \in DOMAIN DirNames } } :
      \A f \in DOMAIN d : ~IsCaptureFile(f) => d[f] = 1 }

\* the limit argument of a call
Limits == -1..(MaxFiles + 1)

Reverse(seq) == [i \in 1..Len(seq) |-> seq[Len(seq) + 1 - i]]

\* readdir(outputDir): the names of the directory, in an order the
\* filesystem chooses
Readdir(entries) ==
  LET present == SelectSeq(DirNames, LAMBDA f : f \in DOMAIN entries)
  IN  { present, Reverse(present) }

\* files.filter(...)
CaptureFiles(files) == SelectSeq(files, IsCaptureFile)

\* the entry built from the stat of one capture file
CaptureEntry(dir, entries, filename) ==
  [ filename |-> filename,
    filepath |-> Resolve(Join(dir, filename)),
    timestamp |-> entries[filename] ]

RECURSIVE InsertNewestFirst(_, _)
\* the place of x in a list sorted by (a, b) => b.timestamp - a.timestamp:
\* before the first entry that is strictly older
InsertNewestFirst(x, sorted) ==
  IF sorted = <<>> THEN <<x>>
  ELSE IF Head(sorted).timestamp < x.timestamp THEN <<x>> \o sorted
  ELSE <<Head(sorted)>> \o InsertNewestFirst(x, Tail(sorted))

RECURSIVE SortNewestFirst(_)
\* capturesWithStats.sort(...): a stable sort, newest first
SortNewestFirst(seq) ==
  IF seq = <<>> THEN <<>>
  ELSE InsertNewestFirst(seq[Len(seq)], SortNewestFirst(SubSeq(seq, 1, Len(seq) - 1)))

\* Array.prototype.slice(0, end): a negative end counts from the end of the
\* array
Slice(seq, end) ==
  SubSeq(seq, 1, IF end < 0 THEN Max(Len(seq) + end, 0) ELSE Min(end, Len(seq)))


\* a catch block that lets the error through to the caller
ListFailureThrown == [thrown |-> TRUE]

\* catch (error): return { captures: [], total: 0 }
ListFailure == [captures |-> <<>>, total |-> 0]

\* the value returned after the stats
ListResult(dir, entries, files, limit) ==
  LET captureFiles == CaptureFiles(files)
      capturesWithStats ==
        SortNewestFirst([i \in DOMAIN captureFiles |->
                           CaptureEntry(dir, entries, captureFiles[i])])
  IN  [ captures |-> Slice(capturesWithStats, limit),
        total |-> Len(capturesWithStats) ]

ListInit ==
  /\ NoSession
  /\ names = Unused
  /\ merge = Unused
  /\ call = Unused
  /\ server = Unused
  /\ overlap = Unused
  /\ \E dir \in OutputDirs, exists \in BOOLEAN, entries \in DirContents, limit \in Limits :
       /\ ~exists => entries = EmptyFs
       /\ listing = [ pc |-> "ensure",
                      dir |-> dir,            \* outputDir
                      limit |-> limit,
                      exists |-> exists,      \* whether the directory exists
                      entries |-> entries,    \* its files and their mtimes
                      before |-> [exists |-> exists, entries |-> entries],
                      files |-> <<>>,         \* const files
                      gone |-> {},            \* files another session deleted since
                      fault |-> "none",       \* the operation that failed
                      ret |-> Pending ]

\* await ensureOutputDirectory(outputDir)
ListEnsure ==
  /\ listing.pc = "ensure"
  /\ IF listing.exists
       THEN listing' = [listing EXCEPT !.pc = "readdir"]
       ELSE \E mkdirOk \in BOOLEAN :
              IF mkdirOk
                THEN listing' = [listing EXCEPT !.pc = "readdir", !.exists = TRUE]
                ELSE listing' = [listing EXCEPT !.pc = "done", !.fault = "mkdir",
                                                !.ret = ListFailure]
  /\ UNCHANGED << session, names, merge, call, server, overlap >>

\* const files = await readdir(outputDir)
ListReaddir ==
  /\ listing.pc = "readdir"
  /\ \/ \E files \in Readdir(listing.entries) :
          listing' = [listing EXCEPT !.pc = "stat", !.files = files]
     \/ listing' = [listing EXCEPT !.pc = "done", !.fault = "readdir",
                                     !.ret = ListFailure]
  /\ UNCHANGED << session, names, merge, call, server, overlap >>

\* the capture files of the listing that are no longer there
Vanished(files, gone) ==
  { f \in gone : \E i \in DOMAIN files : files[i] = f /\ IsCaptureFile(f) }

\* between the readdir and the stats, a session that runs at the same time
\* deletes a capture on a recapture: unlink(filepath)
RecaptureCleanupElsewhere ==
  /\ listing.pc = "stat"
  /\ listing.gone = {}
  /\ \E i \in DOMAIN listing.files :
       /\ IsCaptureFile(listing.files[i])
       /\ listing' = [listing EXCEPT !.gone = {listing.files[i]}]
  /\ UNCHANGED << session, names, merge, call, server, overlap >>

\* the stats of the capture files, the sort, the limit and the return
ListStat ==
  /\ listing.pc = "stat"
  /\ \/ /\ Vanished(listing.files, listing.gone) = {}
        /\ listing' = [listing EXCEPT !.pc = "done",
              !.ret = ListResult(listing.dir, listing.entries, listing.files,
                                 listing.limit)]
     \/ /\ CaptureFiles(listing.files) # <<>>     \* a stat of one of them fails
        /\ listing' = [listing EXCEPT !.pc = "done", !.fault = "stat",
                                        !.ret = ListFailure]
  /\ UNCHANGED << session, names, merge, call, server, overlap >>

ListNext == ListEnsure \/ ListReaddir \/ RecaptureCleanupElsewhere \/ ListStat

ListSpec == ListInit /\ [][ListNext]_vars

(***************************************************************************)
(* The merger: the automatic layout selection of merge_auto.               *)
(***************************************************************************)
\* the sizes of an image
Dims == [width : 1..MaxDim, height : 1..MaxDim]

\* the image lists given to the merger: merge_auto reads the sizes of the
\* images only when there are two of them
ImageLists ==
  UNION { [1..n -> Dims] : n \in 1..2 } \cup
  { [i \in 1..n |-> [width |-> 1, height |-> 1]] : n \in 3..MaxImages }

\* --method of merge-images-cli.py
MergeMethods == {"vertical", "horizontal", "grid", "auto"}

\* fractions, for img.width / img.height
Frac(n, d) == [num |-> n, den |-> d]
FracAdd(a, b) == Frac(a.num * b.den + b.num * a.den, a.den * b.den)
FracDiv(a, n) == Frac(a.num, a.den * n)
FracGreater(a, b) == a.num * b.den > b.num * a.den

RECURSIVE SumAspect(_)
\* sum(img.width / img.height for img in images)
SumAspect(images) ==
  IF images = <<>> THEN Frac(0, 1)
  ELSE FracAdd(Frac(Head(images).width, Head(images).height), SumAspect(Tail(images)))

RECURSIVE CeilSqrtFrom(_, _)
CeilSqrtFrom(n, c) == IF c * c >= n THEN c ELSE CeilSqrtFrom(n, c + 1)

\* the columns of merge_grid when cols is not given: ceil(sqrt(count))
DefaultGridCols(n) == CeilSqrtFrom(n, 0)

Vertical == [method |-> "vertical"]
Horizontal == [method |-> "horizontal"]
Grid(cols) == [method |-> "grid", cols |-> cols]


\* a selection that stacks two images vertically from an average of 1.5 on
MergeAutoFromThreshold(images) ==
  IF Len(images) = 2
    THEN IF ~FracGreater(Frac(3, 2), FracDiv(SumAspect(images), 2))
           THEN Vertical ELSE Horizontal
  ELSE IF Len(images) <= 4 THEN Grid(2)
  ELSE Grid(DefaultGridCols(Len(images)))

\* a selection that keeps two columns up to five images
MergeAutoTwoColumnsToFive(images) ==
  IF Len(images) = 2
    THEN IF FracGreater(FracDiv(SumAspect(images), 2), Frac(3, 2))
           THEN Vertical ELSE Horizontal
  ELSE IF Len(images) <= 5 THEN Grid(2)
  ELSE Grid(DefaultGridCols(Len(images)))

\* merge_auto(images, spacing): the layout it hands the images to
MergeAuto(images) ==
  IF Len(images) = 2
    THEN IF FracGreater(FracDiv(SumAspect(images), 2), Frac(3, 2))
           THEN Vertical ELSE Horizontal
  ELSE IF Len(images) <= 4 THEN Grid(2)
  ELSE Grid(DefaultGridCols(Len(images)))

\* the layout of a merge with the given method
Layout(images, method) ==
  CASE method = "auto" -> MergeAuto(images)
    [] method = "vertical" -> Vertical
    [] method = "horizontal" -> Horizontal
    [] method = "grid" -> Grid(DefaultGridCols(Len(images)))

\* the image the merger writes: a single image is passed through unchanged,
\* several are laid out in input order
MergeImagesResult(images, method) ==
  IF Len(images) = 1 THEN images[1]
  ELSE [layout |-> Layout(images, method), images |-> images]

MergeInit ==
  /\ NoSession
  /\ names = Unused
  /\ listing = Unused
  /\ call = Unused
  /\ server = Unused
  /\ overlap = Unused
  /\ \E images \in ImageLists, method \in MergeMethods :
       merge = [pc |-> "start", images |-> images, method |-> method,
                layout |-> NoResult, output |-> NoResult]

\* one run of the merger
RunMerge ==
  /\ merge.pc = "start"
  /\ merge' = [merge EXCEPT !.pc = "done",
                            !.layout = Layout(merge.images, merge.method),
                            !.output = MergeImagesResult(merge.images, merge.method)]
  /\ UNCHANGED << session, names, listing, call, server, overlap >>

MergeNext == RunMerge

MergeSpec == MergeInit /\ [][MergeNext]_vars

(***************************************************************************)
(* One IPC call: the promise of enhancedCaptureScreen or of                *)
(* selectRegionInteractive, and the 'error' and 'exit' events of the child *)
(* process in every order.                                                 *)
(***************************************************************************)
\* the message of an 'error' event of a process that was launched
ChildError == <<"kill", "EPERM">>

\* the two functions that make an IPC call
IpcFunctions == {"enhancedCaptureScreen", "selectRegionInteractive"}

\* a promise that takes the value of every resolve and reject call
SettleLast(promise, outcome) == outcome

\* resolve(...) and reject(...): only the first call settles the promise
Settle(promise, outcome) == IF promise = Pending THEN outcome ELSE promise

\* the result files the selection process of a call can leave
CallResultFiles(fn, prompted) ==
  IF fn = "enhancedCaptureScreen" THEN CaptureResultFiles(prompted) ELSE RegionResultFiles

\* what the 'exit' handler of a call settles the promise with
CallExitOutcome(fn, file) ==
  IF fn = "enhancedCaptureScreen" THEN CaptureExitOutcome(file) ELSE RegionExitOutcome(file)

CallInit ==
  /\ NoSession
  /\ names = Unused
  /\ listing = Unused
  /\ merge = Unused
  /\ server = Unused
  /\ overlap = Unused
  /\ \E fn \in IpcFunctions, prompted \in BOOLEAN :
       /\ fn = "selectRegionInteractive" => ~prompted
       /\ call = [ pc |-> "start",
                   fn |-> fn,
                   withDescription |-> prompted,
                   spawns |-> 0,          \* calls of spawn
                   events |-> <<>>,       \* events delivered, in order
                   reading |-> NoResult,  \* the file the 'exit' handler is reading
                   outcomes |-> <<>>,     \* arguments of the resolve and reject calls
                   promise |-> Pending ]

\* new Promise(...): const child = spawn("python", args)
CallSpawn ==
  /\ call.pc = "start"
  /\ call' = [call EXCEPT !.pc = "running", !.spawns = @ + 1]
  /\ UNCHANGED << session, names, listing, merge, server, overlap >>

\* child.on("error"): reject(error)
CallOnError ==
  /\ call.pc = "running"
  /\ \A i \in DOMAIN call.events : call.events[i] # "error"
  /\ \E error \in {SpawnError, ChildError} :
       LET outcome == [state |-> "rejected", error |-> error] IN
       call' = [call EXCEPT !.events = Append(@, "error"),
                            !.outcomes = Append(@, outcome),
                            !.promise = Settle(@, outcome)]
  /\ UNCHANGED << session, names, listing, merge, server, overlap >>

\* child.on("exit"): the handler starts reading the result file
CallOnExit ==
  /\ call.pc = "running"
  /\ \A i \in DOMAIN call.events : call.events[i] # "exit"
  /\ \E file \in CallResultFiles(call.fn, call.withDescription) :
       call' = [call EXCEPT !.events = Append(@, "exit"), !.reading = file]
  /\ UNCHANGED << session, names, listing, merge, server, overlap >>

\* the 'exit' handler after its awaits: resolve(...) or reject(error)
CallExitSettle ==
  /\ call.pc = "running"
  /\ call.reading # NoResult
  /\ LET outcome == CallExitOutcome(call.fn, call.reading) IN
     call' = [call EXCEPT !.reading = NoResult,
                          !.outcomes = Append(@, outcome),
                          !.promise = Settle(@, outcome)]
  /\ UNCHANGED << session, names, listing, merge, server, overlap >>

CallNext == CallSpawn \/ CallOnError \/ CallOnExit \/ CallExitSettle

CallSpec == CallInit /\ [][CallNext]_vars

(***************************************************************************)
(* The tool-call handler of index.ts: the output directory it keeps, the   *)
(* calls it passes the directory to, and an enhanced_capture session that  *)
(* runs while other calls are handled.                                     *)
(***************************************************************************)
\* process.cwd()
ProcessCwd == "/cwd"

\* directories a client or the environment can name
ServerDirs == {"/out", "shots"}

\* the directory argument of set_output_directory: a name, "" or missing
DirectoryArgs == ServerDirs \cup {"", Null}

\* process.env.SCREENCATCH_OUTPUT_DIR || process.cwd()
DefaultOutputDirectory(env) == IF Truthy(env) THEN env ELSE ProcessCwd

\* a check that only refuses a missing argument
DirectoryMissingOnlyUndefined(directory) == directory = Null

\* if (!directory) throw new Error("directory parameter is required")
DirectoryMissing(directory) == ~Truthy(directory)

\* the response of the outer catch of the handler
ErrorResponse(message) == [isError |-> TRUE, text |-> <<"Error:">> \o message]
DirectoryRequired == <<"directory", "parameter", "is", "required">>

\* the response of set_output_directory
DirectorySetResponse(directory) ==
  [isError |-> FALSE, text |-> <<"Output", "directory", "set", "to:", directory>>]

\* a session that reads the handler's variable whenever it writes
SessionWriteDirAmbient(srv) == srv.outputDirectory

\* the directory step 3 of a session joins the filename to: its parameter
SessionWriteDir(srv) == srv.sess.outputDir

NoCall == [tool |-> "none"]

ServerInit ==
  /\ NoSession
  /\ names = Unused
  /\ listing = Unused
  /\ merge = Unused
  /\ call = Unused
  /\ overlap = Unused
  /\ \E env \in DirectoryArgs :
       server = [ outputDirectory |-> DefaultOutputDirectory(env),
                  currentOutputDirectory |-> ProcessCwd,   \* of capture.ts
                  configured |-> DefaultOutputDirectory(env), \* the directory last set
                  handled |-> 0,       \* tool calls handled
                  last |-> NoCall,     \* the last call, the directory it was given
                  response |-> NoResult,
                  sess |-> [pc |-> "idle"] ]

\* case "set_output_directory"
SetOutputDirectory ==
  /\ server.handled < MaxToolCalls
  /\ \E directory \in DirectoryArgs :
       IF DirectoryMissing(directory)
         THEN server' = [server EXCEPT
                !.handled = @ + 1,
                !.last = [tool |-> "set_output_directory", directory |-> directory,
                          before |-> server.outputDirectory],
                !.response = ErrorResponse(DirectoryRequired)]
         ELSE server' = [server EXCEPT
                !.handled = @ + 1,
                !.outputDirectory = directory,
                !.currentOutputDirectory = directory,
                !.configured = directory,
                !.last = [tool |-> "set_output_directory", directory |-> directory,
                          before |-> server.outputDirectory],
                !.response = DirectorySetResponse(directory)]
  /\ UNCHANGED << session, names, listing, merge, call, overlap >>

\* case "capture_screen" and case "list_captures": the call is given
\* outputDirectory
DirectoryCall ==
  /\ server.handled < MaxToolCalls
  /\ \E t \in {"capture_screen", "list_captures"} :
       server' = [server EXCEPT
          !.handled = @ + 1,
          !.last = [tool |-> t, outputDir |-> server.outputDirectory,
                    configured |-> server.configured],
          !.response = [isError |-> FALSE, text |-> <<t>>]]
  /\ UNCHANGED << session, names, listing, merge, call, overlap >>

\* case "enhanced_capture": enhancedCaptureWorkflow(outputDirectory, ...)
EnhancedCaptureCall ==
  /\ server.handled < MaxToolCalls
  /\ server.sess.pc = "idle"
  /\ server' = [server EXCEPT
        !.handled = @ + 1,
        !.last = [tool |-> "enhanced_capture", outputDir |-> server.outputDirectory,
                  configured |-> server.configured],
        !.sess = [ pc |-> "running",
                   outputDir |-> server.outputDirectory,   \* the parameter
                   started |-> server.configured,  \* the directory in effect at the start
                   iteration |-> 0,
                   writes |-> <<>> ]]     \* every file written: its directory, and
                                          \* the handler's outputDirectory at the time
  /\ UNCHANGED << session, names, listing, merge, call, overlap >>

\* steps 3 to 5 of an iteration: the image and the sidecar are written
SessionSave ==
  /\ server.sess.pc = "running"
  /\ server' = [server EXCEPT
        !.sess.pc = "saved",
        !.sess.writes = @ \o << [file |-> "image", dir |-> SessionWriteDir(server),
                                 iteration |-> server.sess.iteration,
                                 handler |-> server.outputDirectory],
                                [file |-> "sidecar", dir |-> SessionWriteDir(server),
                                 iteration |-> server.sess.iteration,
                                 handler |-> server.outputDirectory] >>]
  /\ UNCHANGED << session, names, listing, merge, call, overlap >>

\* step 6: a 'recapture' answer
SessionRecapture ==
  /\ server.sess.pc = "saved"
  /\ server.sess.iteration < MaxRecaptures
  /\ server' = [server EXCEPT !.sess.pc = "running", !.sess.iteration = @ + 1]
  /\ UNCHANGED << session, names, listing, merge, call, overlap >>

\* step 6: the capture is kept and the handler responds
SessionReturn ==
  /\ server.sess.pc = "saved"
  /\ server' = [server EXCEPT !.sess.pc = "returned",
                              !.response = [isError |-> FALSE, text |-> <<"enhanced_capture">>]]
  /\ UNCHANGED << session, names, listing, merge, call, overlap >>

ServerNext ==
  \/ SetOutputDirectory
  \/ DirectoryCall
  \/ EnhancedCaptureCall
  \/ SessionSave
  \/ SessionRecapture
  \/ SessionReturn

ServerSpec == ServerInit /\ [][ServerNext]_vars

(***************************************************************************)
(* Two mergeImages calls at the same time: two sessions of one server, or  *)
(* of two servers started from the same installation, write their temp     *)
(* files into the one directory of the compiled sources.                   *)
(***************************************************************************)
\* join(tempDir, `temp-merge-${Date.now()}-${i}.png`), tempDir = __dirname
TempMergePath(now, i) ==
  Join(SourceDir, <<"temp-merge-", ToString(now), "-", ToString(i), ".png">>)

\* imageBuffers of a session: one image per region
SessionImages(s) == [i \in 1..MaxCaptures |-> [session |-> s, crop |-> i]]

\* the state of one mergeImages call
MergeCallStart ==
  [ pc |-> "write",
    tempFiles |-> <<>>,       \* const tempFiles
    read |-> NoResult,        \* the images the merger read from its inputs
    exit |-> "none",          \* the exit code of the merger
    unlinked |-> 0 ]          \* the files the finally block has been through

OverlapInit ==
  /\ NoSession
  /\ names = Unused
  /\ listing = Unused
  /\ merge = Unused
  /\ call = Unused
  /\ server = Unused
  /\ overlap = [ now |-> 0,                               \* Date.now()
                 dir |-> EmptyFs,                         \* the temp-merge files on disk
                 calls |-> [s \in Sessions |-> MergeCallStart] ]

\* a millisecond passes
OverlapTick ==
  /\ overlap.now < MaxMillis
  /\ overlap' = [overlap EXCEPT !.now = @ + 1]
  /\ UNCHANGED << session, names, listing, merge, call, server >>

\* one round of the loop: the name of the temp file, its write and the push
WriteTempFile ==
  /\ \E s \in Sessions :
       LET c == overlap.calls[s]
           i == Len(c.tempFiles)
           path == TempMergePath(overlap.now, i)
       IN  /\ c.pc = "write"
           /\ i < MaxCaptures
           /\ \/ overlap' = [overlap EXCEPT
                    !.dir = WriteFile(@, path, SessionImages(s)[i + 1]),
                    !.calls[s].tempFiles = Append(@, path)]
              \/ overlap' = [overlap EXCEPT !.calls[s].pc = "thrown"]   \* writeFile throws
  /\ UNCHANGED << session, names, listing, merge, call, server >>

\* the merger is spawned with the temp files as its inputs
SpawnMerger ==
  /\ \E s \in Sessions :
       /\ overlap.calls[s].pc = "write"
       /\ Len(overlap.calls[s].tempFiles) = MaxCaptures
       /\ \/ overlap' = [overlap EXCEPT !.calls[s].pc = "merger"]
          \/ overlap' = [overlap EXCEPT !.calls[s].pc = "cleanup"]      \* 'error'
  /\ UNCHANGED << session, names, listing, merge, call, server >>

\* the merger reads its inputs and exits: with 0 when it read them all,
\* with 1 when one of them is missing
MergerRun ==
  /\ \E s \in Sessions :
       LET c == overlap.calls[s]
       IN  /\ c.pc = "merger"
           /\ IF \A i \in DOMAIN c.tempFiles : c.tempFiles[i] \in DOMAIN overlap.dir
                THEN overlap' = [overlap EXCEPT
                       !.calls[s].pc = "cleanup",
                       !.calls[s].exit = "0",
                       !.calls[s].read = [i \in DOMAIN c.tempFiles |->
                                            overlap.dir[c.tempFiles[i]]]]
                ELSE overlap' = [overlap EXCEPT !.calls[s].pc = "cleanup",
                                                !.calls[s].exit = "1"]
  /\ UNCHANGED << session, names, listing, merge, call, server >>

\* one round of the finally block: unlink(tempFile), its error ignored
UnlinkTempFile ==
  /\ \E s \in Sessions :
       LET c == overlap.calls[s]
           path == c.tempFiles[c.unlinked + 1]
       IN  /\ c.pc = "cleanup"
           /\ c.unlinked < Len(c.tempFiles)
           /\ \/ overlap' = [overlap EXCEPT !.dir = Unlink(@, path),
                                            !.calls[s].unlinked = @ + 1]
              \/ overlap' = [overlap EXCEPT !.calls[s].unlinked = @ + 1]
  /\ UNCHANGED << session, names, listing, merge, call, server >>

\* mergeImages returns or throws
MergeImagesReturn ==
  /\ \E s \in Sessions :
       LET c == overlap.calls[s]
       IN  /\ c.pc = "cleanup"
           /\ c.unlinked = Len(c.tempFiles)
           /\ overlap' = [overlap EXCEPT
                 !.calls[s].pc = IF c.exit = "0" THEN "returned" ELSE "thrown"]
  /\ UNCHANGED << session, names, listing, merge, call, server >>

OverlapNext ==
  \/ OverlapTick \/ WriteTempFile \/ SpawnMerger \/ MergerRun
  \/ UnlinkTempFile \/ MergeImagesReturn

OverlapSpec == OverlapInit /\ [][OverlapNext]_vars

TypeOK ==
  /\ pc \in {"loop", "selecting", "selected", "capture", "name", "save", "merging",
             "metadata", "decide", "previewing", "done",
             "l_ensure", "l_selecting", "l_selected", "l_capture"}
  /\ recaptureCount \in 0..MaxRecaptures
  /\ clock \in 0..LastSecond
  /\ (pc = "done") = (ret # Pending)

(***************************************************************************)
(* Properties.                                                             *)
(***************************************************************************)
Done == pc = "done"
Enhanced == tool = "enhanced_capture"
Legacy == tool = "capture_screen"
Succeeded == Done /\ ret.success

\* the files of the session on disk, by what they hold
Images == { p \in DOMAIN disk : disk[p].kind = "image" }
Sidecars == { p \in DOMAIN disk : disk[p].kind = "sidecar" }

\* the sidecar of the returned artifact is on disk
FinalSidecarSaved == Resolve(MetadataPath(ret.filepath)) \in Sidecars
FinalSidecar == disk[Resolve(MetadataPath(ret.filepath))]

\* the number of the selection exchange in progress or last run
Exchange == Len(obs.spawns)

Contains(message, part) ==
  \E i \in 1..(Len(message) - Len(part) + 1) :
     SubSeq(message, i, i + Len(part) - 1) = part

\* the result file of the exchange said cancelled, or there was none
FileCancelled(file) == file.kind = "absent" \/ (file.kind = "json" /\ file.cancelled)

\* C2: if the first selection exchange ends cancelled (cancelled = true with
\* any payload, or no result file), the workflow returns success = false with
\* a message containing 'cancelled'; nothing is written and no capture, merge
\* or preview step runs.
C2_FirstExchangeCancelled ==
  (Enhanced /\ Exchange = 1 /\ FileCancelled(obs.lastFile)) =>
     /\ pc \in {"selected", "done"}
     /\ Done => ~ret.success /\ Contains(ret.message, <<"cancelled">>)
     /\ disk = EmptyFs
     /\ obs.writes = 0
     /\ obs.captureCalls = 0 /\ obs.mergeCalls = 0 /\ obs.previewSpawns = 0

\* a session ended by a first result file with cancelled = true and a payload
C2_Witness ==
  /\ Enhanced /\ Done /\ Exchange = 1
  /\ obs.lastFile.kind = "json" /\ obs.lastFile.cancelled
  /\ obs.lastFile.captures # <<>> /\ obs.lastFile.count > 0
  /\ ret = ReturnCancelled

\* C3 as stated: every selection exchange after the first (entered through
\* recapture, so after a non-cancelled first exchange) is spawned with the
\* description prompt suppressed, whether or not the first exchange returned
\* a description.
C3_NeverPromptedAgain ==
  Enhanced => \A i \in 2..Len(obs.spawns) : ~obs.spawns[i]

\* C4 as stated: the description of the final result and of the final
\* sidecar is the description the first non-cancelled exchange obtained.
C4_DescriptionFixed ==
  (Enhanced /\ Succeeded) =>
     /\ ret.description = obs.first.description
     /\ FinalSidecarSaved
     /\ FinalSidecar.description =
          (IF Truthy(obs.first.description) THEN obs.first.description ELSE "")

\* C5 as stated: every sidecar written has merged = true exactly when its
\* regions list has more than one element.
C5_MergedIffSeveralRegions ==
  \A p \in Sidecars : disk[p].merged <=> Len(disk[p].regions) > 1

\* C6: whenever the workflow returns success the regions list of the saved
\* artifact is non-empty, and no sidecar is ever written with an empty list.
C6_RegionsNonEmpty ==
  /\ \A p \in Sidecars : disk[p].regions # <<>>
  /\ (Enhanced /\ Succeeded) => FinalSidecarSaved /\ FinalSidecar.regions # <<>>

\* a successful session whose result file had a count different from the
\* length of its captures list
C6_Witness ==
  /\ Enhanced /\ Succeeded
  /\ FinalSidecar.captures # Len(FinalSidecar.regions)
  /\ Len(FinalSidecar.regions) = 2

\* C7 as stated: a non-cancelled result with zero regions, at the first step
\* or after a recapture, ends the session with the 'no regions' message,
\* without a call of the capture service and without a file written.
C7_NoRegions ==
  (Enhanced /\ obs.lastFile.kind = "json" /\ ~obs.lastFile.cancelled
            /\ obs.lastFile.captures = <<>>) =>
     /\ pc \in {"selected", "done"}
     /\ Done => ~ret.success /\ ret.message = NoRegionsMessage
     /\ NoRegionsMessage # CancelledMessage
     /\ obs.captureCalls = 0
     /\ obs.writes = 0

\* C8 as stated: every failure of a process spawn, result-file read or parse,
\* screen capture, merge or file write ends in a result object with
\* success = false and a message that includes the cause.
C8_AsStated ==
  (Done /\ obs.fault # NoFault) =>
     ~ret.success /\ Contains(ret.message, obs.fault.cause)

\* C8 amended: both functions always end in a result object with a success
\* flag and a message; a failure of the selection or merger spawn, of the
\* result-file read or parse, of the capture, of the merge or of a file write
\* gives success = false and a message that includes the cause; a failure to
\* launch the preview process is not fatal, it keeps the capture and the
\* session returns success = true.
C8_FailuresReturned ==
  Done =>
     /\ {"success", "message"} \subseteq DOMAIN ret
     /\ obs.fault.step \notin {"none", "preview-spawn"} =>
          ~ret.success /\ Contains(ret.message, obs.fault.cause)
     /\ obs.fault.step = "preview-spawn" => ret.success

\* a session ended by a merger that exited with a non-zero code
C8_Witness ==
  /\ Enhanced /\ Done
  /\ obs.fault.step = "merge"
  /\ ret = [success |-> FALSE, message |-> FailedMessage(MergeExitError(2))]

\* C9: the preview answers 'recapture' exactly when the preview process exits
\* with code 1; any other exit and a launch failure answer 'keep', and the
\* session then returns success with the saved image and sidecar on disk.
C9_PreviewAnswer ==
  [][ (pc = "previewing" /\ pc' # "previewing") =>
        IF obs'.lastPreview = [event |-> "exit", code |-> 1]
          THEN pc' = "loop" /\ recaptureCount' = recaptureCount + 1
          ELSE /\ pc' = "done"
               /\ ret'.success
               /\ disk' = disk
               /\ ret'.filepath = FilePath
               /\ Resolve(FilePath) \in Images
               /\ Resolve(MetadataPath(FilePath)) \in Sidecars ]_vars

\* a capture kept because the preview process was terminated by a signal
C9_Witness ==
  /\ Enhanced /\ Succeeded
  /\ obs.lastPreview = [event |-> "exit", code |-> SignalExit]
  /\ Resolve(ret.filepath) \in Images

\* C10: when the selection process exits and no result file exists, the IPC
\* call resolves with no selection, for every exit code, and does not reject.
C10_MissingFileIsCancel ==
  (pc \in {"selected", "l_selected"} /\ obs.lastFile.kind = "absent") =>
     /\ ipc.state = "resolved"
     /\ Enhanced => ipc.value = [kind |-> "null"]
     /\ Legacy => ipc.value = 0

\* the overlay exited with a non-zero code and left no result file
C10_Witness ==
  /\ pc = "l_selected"
  /\ obs.lastFile.kind = "absent"
  /\ obs.lastExit = [event |-> "exit", code |-> 2]
  /\ ipc = [state |-> "resolved", value |-> 0]

\* the result file exists but is not a document of the CaptureResult schema
FileNotOfSchema(file) == file.kind \in {"malformed", "partial"}

\* C11 as stated: when the result file exists but does not parse as the
\* documented schema, the selection call is rejected with an error, and the
\* session ends with success = false and a message other than the
\* cancellation message; the file is never taken for a cancellation or for a
\* selection.
C11_AsStated ==
  (Enhanced /\ FileNotOfSchema(obs.lastFile)) =>
     /\ pc \in {"selected", "done"}
     /\ ipc.state = "rejected"
     /\ Done => ~ret.success /\ ret.message # CancelledMessage
     /\ obs.captureCalls = 0 /\ obs.writes = 0

\* the selection process of the exchange in progress could not be launched
SelectionSpawnFailed == obs.fault = Fault("spawn", SpawnError) /\ obs.mergeCalls = 0

\* C12: if spawning the selection process fails, the IPC call is rejected
\* with the launch error without waiting for an exit event or a result file,
\* the session can always take its next step, and it ends in a failure
\* result that carries the launch error.
C12_SpawnFailure ==
  SelectionSpawnFailed =>
     /\ pc \in {"selected", "l_selected", "done"}
     /\ ipc = [state |-> "rejected", error |-> SpawnError]
     /\ obs.lastFile = NoResult
     /\ obs.lastExit = [event |-> "none"]
     /\ ~Done => ENABLED Next
     /\ Done => /\ ~ret.success
                /\ Enhanced => ret.message = FailedMessage(SpawnError)
                /\ Legacy => ret.message = LegacyFailedMessage(SpawnError)

\* a session ended by a launch failure of the selection process of a recapture
C12_Witness ==
  /\ Enhanced /\ Done /\ Exchange = 2
  /\ SelectionSpawnFailed
  /\ ret = [success |-> FALSE, message |-> FailedMessage(SpawnError)]

\* C13 as stated: no two IPC calls, of one session or of different sessions,
\* use the same temp result-file path.
C13_TempPathsDistinct ==
  \A i, j \in DOMAIN names.temps :
     i # j => names.temps[i].path # names.temps[j].path

\* C14 as stated: no two captures saved into the same output directory get
\* the same filename, and every capture saved is still on disk, not
\* overwritten by another.
C14_FilenamesDistinct ==
  /\ \A i, j \in DOMAIN names.saves :
        (i # j /\ names.saves[i].dir = names.saves[j].dir) =>
           names.saves[i].filename # names.saves[j].filename
  /\ \A i \in DOMAIN names.saves :
        names.dir[names.saves[i].filepath] = names.saves[i].capture

\* the files of the listed directory that match capture_*.png
Matching == { DirNames[i] : i \in 1..MaxFiles } \cap DOMAIN listing.before.entries

\* the file names a listing returned
Listed == { listing.ret.captures[i].filename : i \in DOMAIN listing.ret.captures }

\* C15 as stated: for every directory content and every limit, unless the
\* directory could not be read, the listing holds files matching
\* capture_*.png with their modification times, newest first, it is cut to
\* the limit (the newest ones stay), and total is the number of matching
\* files whatever the limit.
C15_ListNewestFirst ==
  (listing.pc = "done" /\ listing.fault \notin {"mkdir", "readdir"}) =>
     LET captures == listing.ret.captures IN
     /\ listing.ret.total = Cardinality(Matching)
     /\ Len(captures) = Min(Max(listing.limit, 0), Cardinality(Matching))
     /\ Cardinality(Listed) = Len(captures)
     /\ \A i \in DOMAIN captures :
           /\ captures[i].filename \in Matching
           /\ captures[i].timestamp = listing.before.entries[captures[i].filename]
           /\ \A j \in DOMAIN captures :
                 i < j => captures[i].timestamp >= captures[j].timestamp
           /\ \A f \in Matching \ Listed :
                 listing.before.entries[f] <= captures[i].timestamp

\* C16: if reading the directory fails, listCaptures returns an empty list
\* and total 0 instead of throwing; so it does for every other failure.
C16_ReadFailureIsEmpty ==
  (listing.pc = "done" /\ listing.fault # "none") =>
     listing.ret = [captures |-> <<>>, total |-> 0]

\* readdir failed on a directory that holds capture files
C16_Witness ==
  /\ listing.pc = "done"
  /\ listing.fault = "readdir"
  /\ Cardinality(Matching) = MaxFiles
  /\ listing.limit > 0
  /\ listing.ret.total = 0

\* C17 as stated: a listCaptures call creates, changes and deletes no file
\* and no directory, also when the directory it lists does not exist.
C17_ReadOnly ==
  /\ listing.exists = listing.before.exists
  /\ listing.entries = listing.before.entries

\* a finished run of the automatic selection on n images
AutoMerged(n) == merge.pc = "done" /\ merge.method = "auto" /\ Len(merge.images) = n

\* C18: for two images the automatic merge is vertical exactly when the
\* average of the two width/height ratios is strictly greater than 1.5 (the
\* sum of the ratios greater than 3), and horizontal otherwise.
C18_TwoImages ==
  AutoMerged(2) =>
     LET a == merge.images[1]
         b == merge.images[2]
         above == a.width * b.height + b.width * a.height > 3 * a.height * b.height
     IN  merge.layout = [method |-> IF above THEN "vertical" ELSE "horizontal"]

\* two images of ratios 1 and 2, an average of exactly 1.5, merged
\* horizontally
C18_Witness ==
  /\ AutoMerged(2)
  /\ merge.images = << [width |-> 1, height |-> 1], [width |-> 2, height |-> 1] >>
  /\ merge.layout = [method |-> "horizontal"]

OneRegionSaved ==
  /\ Enhanced
  /\ pc \in {"metadata", "decide", "previewing"} \/ Succeeded
  /\ Len(result.captures) = 1

CropsOf(regions) == [i \in DOMAIN regions |-> [crop |-> regions[i]]]

\* C21: the images the capture step returns, the images handed to the
\* merger and the images of the merged file are one-to-one with the regions
\* of the selection exchange and in their order: the i-th image is the crop
\* of the i-th region.
C21_MergeOrder ==
  Enhanced =>
     /\ pc \in {"name", "save", "merging"} => imageBuffers = CropsOf(result.captures)
     /\ pc = "merging" =>
           /\ Len(TempMergeFiles(imageBuffers)) = Len(result.captures)
           /\ MergerInputs(TempMergeFiles(imageBuffers)) = CropsOf(result.captures)
     /\ (pc \in {"metadata", "decide", "previewing"} /\ obs.mergeCalls = 1) =>
           disk[Resolve(FilePath)] =
             [kind |-> "image", merged |-> TRUE, images |-> CropsOf(result.captures)]

\* a merged image of the regions 2 and 1, selected in that order
C21_Witness ==
  /\ Enhanced /\ pc = "decide"
  /\ result.captures = <<2, 1>>
  /\ disk[Resolve(FilePath)].images = << [crop |-> 2], [crop |-> 1] >>
  /\ disk[Resolve(FilePath)].merged
\* the ways a session may end: a cancellation, a zero-region result, a kept
\* capture (no preview, or a preview that did not answer 'recapture'), or a
\* failure
EndedByCancel == ret = ReturnCancelled
EndedByNoRegions == ret = ReturnNoRegions
EndedByKeep ==
  /\ ret.success
  /\ ~showPreview \/ obs.lastPreview # [event |-> "exit", code |-> 1]
EndedByError ==
  /\ obs.fault.step \notin {"none", "preview-spawn"}
  /\ ret = [success |-> FALSE, message |-> FailedMessage(obs.fault.cause)]

\* C22: the recapture loop has no iteration cap: after N 'recapture'
\* answers, for every N, the session is at the top of the loop with
\* recaptureCount = N and spawns selection exchange N + 1; and a session
\* ends only by a cancellation, a zero-region result, a 'keep' answer (or
\* with the preview disabled) or an error.
C22_NoIterationCap ==
  Enhanced =>
     /\ recaptureCount = obs.recaptureAnswers
     /\ pc = "loop" => /\ ENABLED SpawnSelection
                       /\ Exchange = obs.recaptureAnswers
     /\ pc \notin {"loop", "done"} => Exchange = obs.recaptureAnswers + 1
     /\ Done => EndedByCancel \/ EndedByNoRegions \/ EndedByKeep \/ EndedByError

\* the session is back at the top of the loop after MaxRecaptures
\* 'recapture' answers
C22_Witness ==
  /\ Enhanced /\ pc = "loop"
  /\ obs.recaptureAnswers = MaxRecaptures
  /\ Exchange = MaxRecaptures
\* the name of the sidecar of the capture of second t: the stem of
\* Filename(t) with the extension .json
SidecarName(t) == <<"capture_", ToString(t), ".json">>

\* C23 as stated: for every output directory, once the sidecar of an
\* iteration is written it lies in the output directory, next to the image,
\* under the image's stem with the extension .json; and every sidecar on
\* disk is such a file.
C23_SidecarNextToImage ==
  Enhanced =>
     /\ pc \in {"decide", "previewing"} =>
           /\ Resolve(Join(outputDir, Filename(timestamp))) \in Images
           /\ Resolve(Join(outputDir, SidecarName(timestamp))) \in Sidecars
     /\ \A p \in Sidecars :
           \E t \in 0..LastSecond : p = Resolve(Join(outputDir, SidecarName(t)))
\* C24 as stated: the filepath field of every sidecar the workflow writes is
\* the resolved absolute path of the image file of its iteration, also when
\* the output directory is a relative path.
C24_FilepathAbsolute ==
  Enhanced =>
     \A p \in Sidecars :
        /\ Head(disk[p].filepath) = "/"
        /\ disk[p].filepath = Resolve(Join(outputDir, Filename(disk[p].timestamp)))
\* the overlay left a cancellation, a null region or no result file
LegacyCancelledFile(file) ==
  \/ file.kind = "absent"
  \/ file.kind = "json" /\ (file.cancelled \/ file.region = 0)

\* the single-region capture wrote nothing
LegacyNothingWritten == disk = EmptyFs

\* the single-region capture wrote exactly one capture_*.png, inside the
\* output directory, and returned its resolved path
LegacyOneCaptureWritten ==
  /\ ret.success
  /\ DOMAIN disk = {ret.filepath}
  /\ disk[ret.filepath].kind = "image"
  /\ \E t \in 0..LastSecond :
        ret.filepath = Resolve(outputDir) \o <<"/", "capture_", ToString(t), ".png">>
  /\ Head(ret.filepath) = "/"

\* C25 as stated: captureScreenRegion returns 'Screen capture cancelled by
\* user' and writes nothing if the selection is cancelled, returns a null
\* region or leaves no result file; otherwise it writes exactly one
\* capture_*.png inside outputDir and returns success with its resolved path.
C25_AsStated ==
  (Legacy /\ Done) =>
     IF LegacyCancelledFile(obs.lastFile)
       THEN /\ ret = [success |-> FALSE, message |-> LegacyCancelledMessage]
            /\ LegacyNothingWritten
       ELSE LegacyOneCaptureWritten

\* C25 amended: as stated for a cancellation, a null region and a missing
\* result file; if creating the directory, launching the overlay, reading
\* or parsing the result file, or capturing the region fails, it returns
\* success = false with 'Failed to capture screen: <cause>' and writes no
\* capture file; otherwise it writes exactly one capture_*.png inside
\* outputDir and returns success with its resolved path.
C25_LegacyCapture ==
  (Legacy /\ Done) =>
     IF LegacyCancelledFile(obs.lastFile)
       THEN /\ ret = [success |-> FALSE, message |-> LegacyCancelledMessage]
            /\ LegacyNothingWritten
     ELSE IF obs.fault # NoFault
       THEN /\ ret = [success |-> FALSE, message |-> LegacyFailedMessage(obs.fault.cause)]
            /\ LegacyNothingWritten
     ELSE LegacyOneCaptureWritten

\* a region captured into a relative output directory
C25_Witness ==
  /\ Legacy /\ Succeeded
  /\ outputDir = <<"rel", ".png", "d">>
  /\ obs.lastFile = [kind |-> "json", region |-> 2, cancelled |-> FALSE]
  /\ LegacyOneCaptureWritten
\* the preview of the current iteration is answered with 'recapture'
RecaptureAnswered ==
  pc = "previewing" /\ obs'.lastPreview = [event |-> "exit", code |-> 1]

\* C26: on a 'recapture' answer recaptureCount is incremented and the image
\* and the sidecar just written are deleted, both gone if no deletion
\* failed, before the next selection process is spawned; a failed deletion
\* is not fatal: no other file is touched, nothing is returned and the
\* session is back at the top of the loop.
C26_RecaptureCleanup ==
  [][ RecaptureAnswered =>
        LET image == Resolve(FilePath)
            sidecar == Resolve(MetadataPath(FilePath)) IN
        /\ {image, sidecar} \subseteq DOMAIN disk
        /\ recaptureCount' = recaptureCount + 1
        /\ obs'.spawns = obs.spawns
        /\ pc' = "loop"
        /\ ret' = Pending
        /\ ~obs'.unlinkFailed => DOMAIN disk' = (DOMAIN disk) \ {image, sidecar}
        /\ (DOMAIN disk) \ {image, sidecar} \subseteq DOMAIN disk'
        /\ \A p \in DOMAIN disk' : p \in DOMAIN disk /\ disk'[p] = disk[p] ]_vars

\* the second selection process is running although the deletion of the
\* first iteration's sidecar failed
C26_Witness ==
  /\ Enhanced /\ pc = "selecting" /\ Exchange = 2
  /\ recaptureCount = 1
  /\ obs.unlinkFailed
  /\ Cardinality(Sidecars) = 1 /\ Images = {}
\* C27: with showPreview disabled no preview process is ever spawned: once
\* the sidecar is written the only step of the session is the return, and
\* the session returns success with recaptured = 0 after exactly one
\* selection exchange, its image and sidecar on disk.
C27_NoPreview ==
  (Enhanced /\ ~showPreview) =>
     /\ pc # "previewing"
     /\ obs.previewSpawns = 0 /\ obs.lastPreview = [event |-> "none"]
     /\ recaptureCount = 0
     /\ Exchange <= 1
     /\ pc = "decide" => ENABLED ReturnWithoutPreview /\ ~ENABLED SpawnPreview
     /\ Succeeded => /\ ret.recaptured = 0
                     /\ Exchange = 1
                     /\ Resolve(ret.filepath) \in Images
                     /\ FinalSidecarSaved

\* a session without preview that returned a merged capture
C27_Witness ==
  /\ Enhanced /\ ~showPreview /\ Succeeded
  /\ ret.captureCount = 2
  /\ ret.recaptured = 0
  /\ obs.previewSpawns = 0
\* the capture service failed, or the merge did: a temp file could not be
\* written, the merger could not be launched or it exited with a non-zero
\* code
CaptureOrMergeFailed ==
  /\ Enhanced
  /\ \/ obs.fault.step \in {"capture", "temp-write", "merge"}
     \/ obs.fault.step = "spawn" /\ obs.mergeCalls = 1

\* C28: a failure of the capture service or of the merge ends the session
\* at once with success = false and the cause in the message; in that
\* iteration neither the image nor the sidecar is written and no preview
\* process is spawned.
C28_CaptureOrMergeFailure ==
  CaptureOrMergeFailed =>
     /\ Done
     /\ ret = [success |-> FALSE, message |-> FailedMessage(obs.fault.cause)]
     /\ obs.writes = 0
     /\ obs.previewSpawns = 0
     /\ recaptureCount = 0 => Sidecars = {}

\* the merger of a recapture iteration was terminated by a signal
C28_Witness ==
  /\ CaptureOrMergeFailed /\ Done
  /\ obs.fault = Fault("merge", MergeExitError(SignalExit))
  /\ recaptureCount = 1
  /\ obs.writes = 0
\* the IPC call has settled after an 'exit' event
CallSettled == pc \in {"selected", "l_selected"}

\* the result file was read: it holds a document or text that is not JSON
FileRead(file) == file.kind \in {"json", "partial", "malformed"}

\* C29 as stated: whenever the result file was read, whether it holds a
\* selection, a cancellation or unparsable text, the temp file is gone when
\* the call settles unless its deletion failed (a deletion is attempted
\* only for a file that parsed, so a file left behind is one that parsed);
\* and the outcome of the call is the same whether or not the file is gone.
C29_TempFileDeleted ==
  (CallSettled /\ FileRead(obs.lastFile)) =>
     /\ tempFile = "present" => obs.lastFile.kind # "malformed"
     /\ Enhanced => ipc = CaptureExitOutcome(obs.lastFile)
     /\ Legacy => ipc = RegionExitOutcome(obs.lastFile)
\* the image and the sidecar of the capture of second t in the output
\* directory
ImageOf(t) == Resolve(Join(outputDir, Filename(t)))
SidecarOf(t) == Resolve(Join(outputDir, SidecarName(t)))

\* C30 as stated: in an iteration the image is written before the sidecar,
\* and at every terminal state of a session, success, cancellation or
\* error, the output directory holds both the image and the sidecar of a
\* capture of the session or neither of them.
C30_PairOrNothing ==
  Enhanced =>
     /\ pc = "metadata" => ImageOf(timestamp) \in Images
     /\ \A t \in 0..LastSecond : SidecarOf(t) \in Sidecars => ImageOf(t) \in Images
     /\ Done => \A t \in 0..LastSecond :
                   ImageOf(t) \in Images <=> SidecarOf(t) \in Sidecars

\* C31: a call of enhancedCaptureScreen or selectRegionInteractive spawns
\* exactly one process and its promise settles exactly once, with the
\* outcome of the first handler that resolves or rejects, for every
\* combination and order of 'error' and 'exit' events; it spawns no second
\* process after a failure or a cancellation.
C31_OneSpawnOneSettle ==
  /\ call.spawns <= 1
  /\ call.pc = "running" => call.spawns = 1
  /\ call.promise = IF call.outcomes = <<>> THEN Pending ELSE call.outcomes[1]

\* the 'exit' handler resolved with a selection after the promise was
\* rejected by an 'error' event that came while the file was being read
C31_Witness ==
  /\ call.fn = "enhancedCaptureScreen"
  /\ call.events = <<"exit", "error">>
  /\ Len(call.outcomes) = 2
  /\ call.outcomes[1] = [state |-> "rejected", error |-> ChildError]
  /\ call.outcomes[2].state = "resolved"
  /\ call.promise = call.outcomes[1]
  /\ call.spawns = 1

\* path lies under the directory dir
Under(dir, path) ==
  /\ Len(path) > Len(dir) + 1
  /\ SubSeq(path, 1, Len(dir)) = dir
  /\ path[Len(dir) + 1] = "/"

\* the image and sidecar paths whose file a step creates, changes or deletes
DiskChanged ==
  { p \in (DOMAIN disk) \cup (DOMAIN disk') :
      \/ p \notin DOMAIN disk
      \/ p \notin DOMAIN disk'
      \/ disk[p] # disk'[p] }

\* the temp files a step of the session writes or deletes: the temp-merge
\* files of mergeImages and the result file the 'exit' handler unlinks
TempChanged ==
  (IF mergeTemps' # mergeTemps /\ pc \in {"save", "merging"}
     THEN { TempMergePath(0, i) : i \in 0..(Max(mergeTemps, mergeTemps') - 1) }
     ELSE {}) \cup
  (IF pc \in {"selecting", "l_selecting"} /\ obs'.lastFile # NoResult
        /\ obs'.lastFile.kind \in {"json", "partial"} /\ tempFile' = "absent"
     THEN { GetTempOutputFile(IF pc = "selecting" THEN CaptureResultPrefix
                                                  ELSE RegionOutputPrefix,
                              [s |-> 0, ms |-> 0], 0) }
     ELSE {})

PlainOutputDir == \A i \in DOMAIN outputDir : outputDir[i] # ".png"

C33_SetOutputDirectory ==
  /\ server.outputDirectory = server.configured
  /\ Truthy(server.outputDirectory)
  /\ server.last.tool \in {"capture_screen", "enhanced_capture", "list_captures"} =>
        server.last.outputDir = server.last.configured
  /\ server.last.tool = "set_output_directory" =>
        IF server.last.directory \in {"", Null}
          THEN /\ server.outputDirectory = server.last.before
               /\ server.sess.pc \in {"idle", "running", "saved"} =>
                     server.response = ErrorResponse(DirectoryRequired)
          ELSE server.outputDirectory = server.last.directory

\* the third call handled, a listing, was given the directory that an
\* earlier set_output_directory call had set
C33_Witness ==
  /\ server.handled = 3
  /\ server.last = [tool |-> "list_captures", outputDir |-> "shots", configured |-> "shots"]
  /\ server.response = [isError |-> FALSE, text |-> <<"list_captures">>]
  /\ server.outputDirectory = "shots"

\* the session waits for its selection process
Selecting == pc \in {"selecting", "l_selecting"}

\* an event of the selection process was handled in this step
SelectionEvent ==
  \/ obs'.lastExit.event = "exit"
  \/ obs'.fault = Fault("spawn", SpawnError)

\* C34: if every spawned process eventually exits and every filesystem
\* operation eventually completes, the preview answering 'recapture' at
\* most MaxRecaptures times, the session eventually returns a result; and
\* while its selection process does not exit (or fail to launch) the session
\* stays where it is and returns nothing: no step of the code times out or
\* kills the process.
C34_Termination ==
  /\ <>Done
  /\ [][ Selecting => /\ ret = Pending
                      /\ pc' # pc => SelectionEvent ]_vars

\* a session that returned after its preview asked for a recapture
C34_Witness ==
  /\ Enhanced /\ Done
  /\ obs.recaptureAnswers = MaxRecaptures
  /\ Exchange = MaxRecaptures + 1

\* the external process the session waits for at its position
AwaitedProcess ==
  CASE pc \in {"selecting", "l_selecting"} -> {"selection"}
    [] pc = "merging" -> {"merger"}
    [] pc = "previewing" -> {"preview"}
    [] OTHER -> {}

\* C35: at most one external process of a session is running at any time,
\* the one the session is waiting for; when the session takes its next step
\* the process of the exchange has exited (or was never launched) and the
\* call has settled with what was read.
C35_OneProcessAtATime ==
  /\ Cardinality(obs.running) <= 1
  /\ obs.running = AwaitedProcess
  /\ pc \in {"selected", "l_selected"} => ipc # Pending
  /\ pc \in {"selecting", "l_selecting"} => ipc = Pending

\* the preview process of a merged capture is the only process running; the
\* selection process and the merger have exited
C35_Witness ==
  /\ pc = "previewing"
  /\ obs.running = {"preview"}
  /\ obs.mergeCalls = 1
  /\ Exchange = 1

\* the selection exchange of a recapture ended cancelled or without regions
RecaptureAbandoned ==
  /\ Enhanced /\ Done /\ Exchange >= 2
  /\ \/ FileCancelled(obs.lastFile)
     \/ /\ obs.lastFile.kind = "json" /\ ~obs.lastFile.cancelled
        /\ obs.lastFile.captures = <<>>

MergeImagesSettled == Enhanced /\ obs.mergeCalls = 1 /\ pc \notin {"save", "merging"}

\* C37 as stated: when mergeImages returns or throws, none of the temp-merge
\* files it created is left on disk, wherever it failed: at the write of the
\* k-th temp file, at the spawn of the merger or at a non-zero merger exit.
C37_TempMergeFilesRemoved ==
  MergeImagesSettled => mergeTemps = 0

\* the temp files of the two calls
TempFilesOf(s) == { overlap.calls[s].tempFiles[i] : i \in DOMAIN overlap.calls[s].tempFiles }

\* C38 as stated: two mergeImages calls that run at the same time have no
\* temp-merge file in common, a merger reads only the images of its own
\* session, and no merger finds an input missing.
C38_TempMergeFilesApart ==
  /\ TempFilesOf(1) \cap TempFilesOf(2) = {}
  /\ \A s \in Sessions :
       LET c == overlap.calls[s]
       IN  /\ c.read # NoResult => \A i \in DOMAIN c.read : c.read[i].session = s
           /\ c.exit # "1"

\* the capture files that are in the directory when the stats are taken
StillThere == Matching \ listing.gone

\* C39 as stated: when a capture file is deleted by another session between
\* the readdir and its stat, the listing holds only captures that are still
\* there, as many as the limit allows, and total is their number.
C39_ListSurvivesDeletion ==
  (listing.pc = "done" /\ listing.gone # {}) =>
     /\ listing.ret.total = Cardinality(StillThere)
     /\ Listed \subseteq StillThere
     /\ listing.limit >= 0 =>
          Len(listing.ret.captures) = Min(listing.limit, Cardinality(StillThere))

\* C40: every image and sidecar of a session, in every iteration, is written
\* to the directory that was in effect when the session started, whatever
\* set_output_directory calls are handled while the session runs.
C40_SessionDirectoryFixed ==
  server.sess.pc # "idle" =>
     \A i \in DOMAIN server.sess.writes :
        server.sess.writes[i].dir = server.sess.started

\* a session started with "/out" wrote its first capture there, then
\* set_output_directory("shots") was handled, and the recapture was written
\* to "/out" as well
C40_Witness ==
  /\ server.sess.pc = "saved"
  /\ server.sess.started = "/out"
  /\ server.outputDirectory = "shots"
  /\ Len(server.sess.writes) = 4
  /\ \A i \in 1..4 : server.sess.writes[i].dir = "/out"
  /\ server.sess.writes[2].handler = "/out"
  /\ server.sess.writes[3] = [file |-> "image", dir |-> "/out", iteration |-> 1,
                              handler |-> "shots"]
====
